---- MODULE Spec2Model ----
(***************************************************************************)
(* State-machine model of the IMU/video review application:                *)
(*   - the stream synchronizer (marks, offset, "Apply sync" button),       *)
(*   - the windowed chart view (updateChartsForVideoTime),                 *)
(*   - the tracking loop (handleStart / renderFrame / stopTracking),       *)
(*   - the project store (timestamps, localStorage, video identity).       *)
(*                                                                         *)
(* Times are exact fixed-point numbers: one unit is 1/(5*SAMPLE_RATE_HZ)   *)
(* of a second, so that tenths of a second (52 units) and sample times    *)
(* (idx / SAMPLE_RATE_HZ = 5 units per sample) are integers.               *)
(* Floating-point rounding of the JavaScript numbers is not modelled.      *)
(***************************************************************************)
EXTENDS Integers, Sequences, FiniteSets, TLC

\* ---------------------------------------------------------------- constants

SAMPLE_RATE_HZ == 104
UPLOAD_FRAME_SKIP == 2
IMU_UPDATE_THROTTLE_MS == 33
windowSize == 5

UnitsPerSecond == 5 * SAMPLE_RATE_HZ
TenthUnits == UnitsPerSecond \div 10
SampleUnits == UnitsPerSecond \div SAMPLE_RATE_HZ
HalfWindowUnits == (windowSize * UnitsPerSecond) \div 2

\* ------------------------------------------------------------------- bounds

MaxVideoStep == 2
MaxSamples == 2
MaxTimestamps == 3
MaxFrameIndex == 4
MaxChains == 2
MaxStarts == 2
MaxNow == 8
MaxSteps == 6
MaxViewSeconds == 10
MaxProjectSteps == 6

Null == <<>>
Some(v) == <<v>>
Val(o) == o[1]

\* a nullable number in an arithmetic expression (null coerces to 0)
NumberOf(mark) == IF mark = Null THEN 0 ELSE Val(mark)

\* video.currentTime values the user can seek / play to (main specification)
VideoTimes == { i * SampleUnits : i \in 0..MaxVideoStep }

\* inputs of the windowed-view specification
ViewVideoTimes == { i * UnitsPerSecond : i \in 0..MaxViewSeconds }
ViewOffsetTenths == { -30, 0, 25, 42, 50, 75, 100, 110, 125, 150 }
ViewOffsets == { k * TenthUnits : k \in ViewOffsetTenths }

\* --------------------------------------------------------- number helpers

Max(a, b) == IF a >= b THEN a ELSE b
Min(a, b) == IF a <= b THEN a ELSE b
Abs(a) == IF a < 0 THEN -a ELSE a

RECURSIVE Gcd(_, _)
Gcd(a, b) == IF b = 0 THEN a ELSE Gcd(b, a % b)

\* A JavaScript number that results from a division: a finite fraction
\* num/den in lowest terms (den > 0), +Infinity, -Infinity or NaN.
Fin(n, d) ==
  LET g == Gcd(Abs(n), Abs(d))
      s == IF d < 0 THEN -1 ELSE 1
  IN [kind |-> "fin", num |-> (s * n) \div g, den |-> (s * d) \div g]
PosInf == [kind |-> "+inf", num |-> 1, den |-> 0]
NegInf == [kind |-> "-inf", num |-> -1, den |-> 0]
NaN == [kind |-> "nan", num |-> 0, den |-> 0]

\* n / d with JavaScript semantics (no exception on a zero divisor)
JsDiv(n, d) ==
  IF d # 0 THEN Fin(n, d)
  ELSE IF n > 0 THEN PosInf
  ELSE IF n < 0 THEN NegInf
  ELSE NaN

\* x * k for an integer k > 0
JsTimes(x, k) == IF x.kind = "fin" THEN Fin(x.num * k, x.den) ELSE x

\* Math.max(x, k) and Math.min(x, k) for an integer k
JsMax(x, k) ==
  IF x.kind = "nan" THEN NaN
  ELSE IF x.kind = "+inf" THEN PosInf
  ELSE IF x.kind = "-inf" THEN Fin(k, 1)
  ELSE IF x.num >= k * x.den THEN x ELSE Fin(k, 1)
JsMin(x, k) ==
  IF x.kind = "nan" THEN NaN
  ELSE IF x.kind = "-inf" THEN NegInf
  ELSE IF x.kind = "+inf" THEN Fin(k, 1)
  ELSE IF x.num <= k * x.den THEN x ELSE Fin(k, 1)

\* ------------------------------------------------- windowed view (pure)

\* updateChartsForVideoTime: the x-axis window and the marker position (in
\* percent of the chart width) for a video time and an offset.
AdjustedTime(videoTime, offset) == videoTime - offset
StartTimeUnclamped(adjustedTime) == adjustedTime - HalfWindowUnits
StartTime(adjustedTime) == Max(0, adjustedTime - HalfWindowUnits)
EndTimeFromStart(adjustedTime) == StartTime(adjustedTime) + 2 * HalfWindowUnits
EndTime(adjustedTime) == adjustedTime + HalfWindowUnits
MarkerPercent(adjustedTime) ==
  JsDiv(adjustedTime - StartTime(adjustedTime),
        EndTime(adjustedTime) - StartTime(adjustedTime))
MarkerPosUnclamped(adjustedTime) == JsTimes(MarkerPercent(adjustedTime), 100)
MarkerPos(adjustedTime) == JsMin(JsMax(JsTimes(MarkerPercent(adjustedTime), 100), 0), 100)

WindowedView(videoTime, offset) ==
  LET adjustedTime == AdjustedTime(videoTime, offset)
  IN [adjustedTime |-> adjustedTime,
      min |-> StartTime(adjustedTime),
      max |-> EndTime(adjustedTime),
      markerPos |-> MarkerPos(adjustedTime)]

\* ------------------------------------------------------------ CSV parsing

\* A CSV text is a sequence of lines, a line the sequence of its comma
\* separated fields.  A line whose text is empty or blank is <<"">> or <<" ">>.
CsvEmpty == << >>
CsvHeaderOnly == << <<"ax", "ay">> >>
CsvOne == << <<"ax", "ay">>, <<"1", "2">> >>
CsvTwo == << <<"ax", "ay">>, <<"1", "x">>, <<"">>, <<"2">> >>
CsvThree == << <<"ax", "ay">>, <<"2", "1">>, <<"x", "">>, <<" ">>, <<"1", "1">> >>
CsvFour == << <<"ax", "ay">>, <<"1", "1">>, <<"2", "2">>, <<"1", "2">>, <<"2", "1">> >>
AllCsvFiles == { CsvEmpty, CsvHeaderOnly, CsvOne, CsvTwo, CsvThree, CsvFour }

IsBlankLine(line) == Len(line) = 1 /\ line[1] \in {"", " "}
NonBlankLines(text) == SelectSeq(text, LAMBDA l : ~IsBlankLine(l))

\* parseFloat(field), then "Number.isFinite(v) ? v : 0"
ParseField(field) ==
  IF field = "1" THEN 1 ELSE IF field = "2" THEN 2 ELSE 0

\* headers.forEach((h, j) => row[h] = ...): a later column of the same name wins
ParseRow(headers, values) ==
  [h \in { headers[j] : j \in 1..Len(headers) } |->
     LET j == CHOOSE k \in 1..Len(headers) :
                /\ headers[k] = h
                /\ \A m \in 1..Len(headers) : headers[m] = h => m <= k
     IN IF j <= Len(values) THEN ParseField(values[j]) ELSE 0]

\* the rows of a CSV text whose first non-blank line is the header
ParseCsvRows(text) ==
  LET lines == NonBlankLines(text)
  IN [i \in 1..(Len(lines) - 1) |-> ParseRow(lines[1], lines[i + 1])]

\* csvData.map((_, idx) => idx / SAMPLE_RATE_HZ)
TimesOfFromOne(rows) == [i \in 1..Len(rows) |-> i * SampleUnits]
TimesOf(rows) == [i \in 1..Len(rows) |-> (i - 1) * SampleUnits]

CsvFiles == { f \in AllCsvFiles : Len(NonBlankLines(f)) <= MaxSamples + 1 }

\* ------------------------------------------------------- inputs of actions

VideoFiles ==
  { [name |-> "a.mp4", size |-> 1, content |-> "c1"],
    [name |-> "a.mp4", size |-> 1, content |-> "c2"],
    [name |-> "b.mp4", size |-> 2, content |-> "c3"] }
\* the name exportProject gives the video entry, which importProject takes over
ExportedVideoName == "video_from_project.mp4"
StorageKeys ==
  { <<f.name, f.size>> : f \in VideoFiles } \cup
  { <<ExportedVideoName, f.size>> : f \in VideoFiles }

Labels == {"", "L"}
EventTypes == {"", "jump"}
NotesTexts == {"", "n"}
Poses == {"p1", "p2"}
SliderValues == { i * SampleUnits : i \in 0..MaxSamples } \cup {SampleUnits - 1}

\* formatTime(seconds): "m:ss.xx" (floor of minutes, seconds, hundredths)
FormatTime(t) ==
  <<t \div (60 * UnitsPerSecond),
    (t % (60 * UnitsPerSecond)) \div UnitsPerSecond,
    ((t % UnitsPerSecond) * 100) \div UnitsPerSecond>>

\* ------------------------------------------------------------------ state

VARIABLES
  syncOffset,            \* global offset: adjustedTime = videoTime - syncOffset
  videoMarkedTime,       \* Null or Some(time)
  dataMarkedTime,        \* Null or Some(time)
  setSyncDisabled,       \* setSyncBtn.disabled
  csvData,               \* Null or the sequence of parsed rows
  csvTimesSeconds,       \* sequence of sample times
  chartAxis,             \* Null (no charts) or Some([min, max]) of the x axis
  marker,                \* Null (hidden) or Some(marker position in percent)
  timestamps,            \* sequence of annotations
  notesInput,            \* notesInput.value
  currentVideoFileInfo,  \* Null or Some([name, size])
  localStorage,          \* storage key -> Null or Some(stored project)
  videoTime,             \* video.currentTime
  videoSrc,              \* Null, Some(content of the file) or Some("camera")
  pendingLoad,           \* Null or Some(onloadedmetadata handler about to fire)
  uploadedVideoReady,
  timeUpdateListener,    \* videoTimeUpdateListener # null
  currentMode,           \* "live" | "upload"
  isRunning,
  animationId,           \* Null or Some(id of the last requested frame)
  rafPending,            \* ids of the frame callbacks requested and not yet run
  frameIndex,
  lastPose,              \* Null or Some(pose)
  drawnPose,             \* Null or Some(pose last drawn on the canvas)
  inflight,              \* renderFrame calls awaiting detector.estimatePoses
  starts,                \* number of handleStart calls suspended at each await
  cameraStream,          \* cameraStream # null
  lastImuUpdateTime,
  now,                   \* performance.now()
  importState,           \* Null or Some([pc, bundle, stamps, shared]) of the import under way
  lastError,             \* Null or Some(failure the last handler signalled)
  steps                  \* number of handlers run so far (bounds the explored runs)

syncVars == <<syncOffset, videoMarkedTime, dataMarkedTime, setSyncDisabled>>
csvVars == <<csvData, csvTimesSeconds>>
chartVars == <<chartAxis, marker>>
projectVars == <<timestamps, notesInput, currentVideoFileInfo, localStorage>>
videoVars == <<videoTime, videoSrc, pendingLoad, uploadedVideoReady, timeUpdateListener>>
loopVars == <<currentMode, isRunning, animationId, rafPending, frameIndex, lastPose,
              drawnPose, inflight, starts, cameraStream, lastImuUpdateTime, now>>
vars == <<syncVars, csvVars, chartVars, projectVars, videoVars, loopVars,
         importState, lastError, steps>>

\* ---------------------------------------------------------- shared helpers

HasCsv == csvData # Null /\ Len(csvTimesSeconds) > 0

\* the chart state after updateChartsForVideoTime(t) with the given offset,
\* csv and charts; <<axis, marker>>
ChartsForVideoTime(t, offset, data, times, axis, mk) ==
  IF data = Null \/ Len(times) = 0 \/ axis = Null
    THEN <<axis, mk>>
    ELSE LET w == WindowedView(t, offset)
         IN <<Some([min |-> w.min, max |-> w.max]), Some(w.markerPos)>>

\* getProjectStorageKey()
ProjectStorageKey(info) ==
  IF info = Null THEN Null ELSE Some(<<Val(info).name, Val(info).size>>)

ProjectDataWithoutNotes(offset, stamps, notes) ==
  [syncOffset |-> Some(offset), timestamps |-> Some(stamps),
   sampleRate |-> Some(SAMPLE_RATE_HZ), createdAt |-> Some("iso"),
   notes |-> Null, videoFileName |-> Null, csvFileName |-> Null]

\* the aggregate saveProjectToLocal builds before Object.assign(extra)
ProjectData(offset, stamps, notes) ==
  [syncOffset |-> Some(offset), timestamps |-> Some(stamps),
   sampleRate |-> Some(SAMPLE_RATE_HZ), createdAt |-> Some("iso"),
   notes |-> Some(notes), videoFileName |-> Null, csvFileName |-> Null]

ProjectFields == {"syncOffset", "timestamps", "sampleRate", "createdAt", "notes",
                  "videoFileName", "csvFileName"}

\* Object.assign(projectData, extra): fields present in extra win
Assign(projectData, extra) ==
  [f \in ProjectFields |-> IF extra[f] # Null THEN extra[f] ELSE projectData[f]]
NoExtra == [f \in ProjectFields |-> Null]

SavedStorageUnguarded(store, info, offset, stamps, notes, extra, writeOk) ==
  LET key == ProjectStorageKey(info)
  IN IF key = Null THEN store
     ELSE [store EXCEPT ![Val(key)] =
             Some(Assign(ProjectData(offset, stamps, notes), extra))]

\* localStorage after saveProjectToLocal(extra); writeOk = FALSE is a
\* setItem that throws (quota), which is caught and logged
SavedStorage(store, info, offset, stamps, notes, extra, writeOk) ==
  LET key == ProjectStorageKey(info)
  IN IF key = Null \/ ~writeOk THEN store
     ELSE [store EXCEPT ![Val(key)] =
             Some(Assign(ProjectData(offset, stamps, notes), extra))]

\* checkSyncReady()
SyncReadyDisabledEither(vMark, dMark) == ~(vMark # Null \/ dMark # Null)
SyncReadyDisabled(vMark, dMark) == ~(vMark # Null /\ dMark # Null)

\* the chart axis after initImuCharts() and updateImuChartsFull()
FullAxis(data, times) ==
  IF data = Null \/ Len(times) = 0
    THEN Some([min |-> 0, max |-> windowSize * UnitsPerSecond])
    ELSE Some([min |-> 0, max |-> Max(windowSize * UnitsPerSecond, times[Len(times)])])

\* rawLabel || formatTime(t)
LabelOf(rawLabel, t) ==
  IF rawLabel = "" THEN [text |-> "", time |-> Some(FormatTime(t))]
  ELSE [text |-> rawLabel, time |-> Null]

\* a frame-callback id that is neither pending nor remembered in animationId
FreshRafId(pending, lastId) ==
  CHOOSE i \in 1..(MaxChains + 2) :
    /\ i \notin pending
    /\ lastId # Some(i)
    /\ \A j \in 1..(i - 1) : j \in pending \/ lastId = Some(j)

\* stopTracking(): <<isRunning, animationId, rafPending>> afterwards
StopTrackingResult ==
  IF ~isRunning THEN <<isRunning, animationId, rafPending>>
  ELSE <<FALSE, Null,
         IF animationId # Null THEN rafPending \ {Val(animationId)} ELSE rafPending>>

\* ----------------------------------------------------------------- initial

\* the "disabled" attribute of setSyncBtn when the page is loaded (index.html)
InitSetSyncDisabled == TRUE

\* the state when main() has loaded the detectors, bound the listeners,
\* created the (empty) charts and called selectMode("upload")
Init ==
  /\ syncOffset = 0
  /\ videoMarkedTime = Null
  /\ dataMarkedTime = Null
  /\ setSyncDisabled = InitSetSyncDisabled
  /\ csvData = Null
  /\ csvTimesSeconds = << >>
  /\ chartAxis = FullAxis(Null, << >>)
  /\ marker = Null
  /\ timestamps = << >>
  /\ notesInput = ""
  /\ currentVideoFileInfo = Null
  /\ localStorage = [k \in StorageKeys |-> Null]
  /\ videoTime = 0
  /\ videoSrc = Null
  /\ pendingLoad = Null
  /\ uploadedVideoReady = FALSE
  /\ timeUpdateListener = FALSE
  /\ currentMode = "upload"
  /\ isRunning = FALSE
  /\ animationId = Null
  /\ rafPending = {}
  /\ frameIndex = 0
  /\ lastPose = Null
  /\ drawnPose = Null
  /\ inflight = 0
  /\ starts = [gum |-> 0, meta |-> 0, play |-> 0]
  /\ cameraStream = FALSE
  /\ lastImuUpdateTime = 0
  /\ now = 0
  /\ importState = Null
  /\ lastError = Null
  /\ steps = 0

\* ------------------------------------------------------------ synchronizer

MarkVideoAppliesOffset ==
  /\ videoMarkedTime' = Some(videoTime)
  /\ syncOffset' = videoTime - NumberOf(dataMarkedTime)
  /\ setSyncDisabled' = SyncReadyDisabled(Some(videoTime), dataMarkedTime)
  /\ lastError' = Null
  /\ UNCHANGED <<dataMarkedTime, csvVars, chartVars, projectVars, videoVars, loopVars,
                 importState>>

\* markVideoBtn click: videoMarkedTime = video.currentTime || 0
MarkVideo ==
  /\ videoMarkedTime' = Some(videoTime)
  /\ setSyncDisabled' = SyncReadyDisabled(Some(videoTime), dataMarkedTime)
  /\ lastError' = Null
  /\ UNCHANGED <<syncOffset, dataMarkedTime, csvVars, chartVars, projectVars,
                 videoVars, loopVars, importState>>

\* markDataBtn click: the mark is the slider's last sample time, 0 by default
MarkData ==
  /\ IF ~HasCsv
       THEN UNCHANGED <<dataMarkedTime, setSyncDisabled>>
       ELSE LET d == IF dataMarkedTime = Null THEN Some(0) ELSE dataMarkedTime
            IN /\ dataMarkedTime' = d
               /\ setSyncDisabled' = SyncReadyDisabled(videoMarkedTime, d)
  /\ lastError' = Null
  /\ UNCHANGED <<syncOffset, videoMarkedTime, csvVars, chartVars, projectVars,
                 videoVars, loopVars, importState>>

SliderSampleTimeRaw(time, times) == time

SliderSampleTimeAfter(time, times) ==
  LET found == { i \in 1..Len(times) : times[i] > time }
      idx == IF found = {} THEN Len(times)
             ELSE CHOOSE i \in found : \A j \in found : i <= j
  IN times[idx]

\* the sample time the data slider listener picks for a slider value
SliderSampleTime(time, times) ==
  LET found == { i \in 1..Len(times) : times[i] >= time }
      idx == IF found = {} THEN Len(times)
             ELSE CHOOSE i \in found : \A j \in found : i <= j
  IN times[idx]

\* dataTimelineSlider "input": sets the data mark and moves the charts
SliderInput(time) ==
  /\ IF Len(csvTimesSeconds) = 0
       THEN UNCHANGED <<dataMarkedTime, chartVars>>
       ELSE LET d == SliderSampleTime(time, csvTimesSeconds)
                c == ChartsForVideoTime(d + syncOffset, syncOffset, csvData,
                                        csvTimesSeconds, chartAxis, marker)
            IN /\ dataMarkedTime' = Some(d)
               /\ chartAxis' = c[1]
               /\ marker' = c[2]
  /\ lastError' = Null
  /\ UNCHANGED <<syncOffset, videoMarkedTime, setSyncDisabled, csvVars, projectVars,
                 videoVars, loopVars, importState>>

\* "if (videoMarkedTime == null || dataMarkedTime == null) return"
ApplyRejectsOneMark(vMark, dMark) == vMark = Null /\ dMark = Null
ApplyRejects(vMark, dMark) == vMark = Null \/ dMark = Null

\* "syncOffset = videoMarkedTime - dataMarkedTime"
AppliedOffsetAdds(offset, vMark, dMark) == offset + NumberOf(vMark) - NumberOf(dMark)
AppliedOffset(offset, vMark, dMark) == NumberOf(vMark) - NumberOf(dMark)

\* "videoMarkedTime = null; dataMarkedTime = null"
MarkAfterApplyKept(mark) == mark
MarkAfterApply(mark) == Null

\* setSyncBtn click handler
ApplySync(writeOk) ==
  /\ IF ApplyRejects(videoMarkedTime, dataMarkedTime)
       THEN UNCHANGED <<syncVars, localStorage>>
       ELSE LET offset == AppliedOffset(syncOffset, videoMarkedTime, dataMarkedTime)
            IN /\ syncOffset' = offset
               /\ videoMarkedTime' = MarkAfterApply(videoMarkedTime)
               /\ dataMarkedTime' = MarkAfterApply(dataMarkedTime)
               /\ setSyncDisabled' = TRUE
               /\ localStorage' = SavedStorage(localStorage, currentVideoFileInfo, offset,
                                               timestamps, notesInput, NoExtra, writeOk)
  /\ lastError' = Null
  /\ UNCHANGED <<csvVars, chartVars, timestamps, notesInput, currentVideoFileInfo,
                 videoVars, loopVars, importState>>

\* ---------------------------------------------------------------- CSV load

\* csvInput "change" -> reader.onload: parse the text, rebuild the time axis,
\* re-create the charts with the full series
LoadCsv(text) ==
  /\ IF Len(NonBlankLines(text)) = 0
       THEN UNCHANGED <<csvVars, chartAxis>>
       ELSE LET rows == ParseCsvRows(text)
            IN /\ csvData' = Some(rows)
               /\ csvTimesSeconds' = TimesOf(rows)
               /\ chartAxis' = FullAxis(Some(rows), TimesOf(rows))
  /\ lastError' = Null
  /\ UNCHANGED <<syncVars, marker, projectVars, videoVars, loopVars, importState>>

\* ------------------------------------------------------------ annotations

\* importProject assigns "timestamps = projectData.timestamps": from then on
\* the live array and the array of the import's projectData object are one
\* object, until "timestamps" is assigned again. st.stamps is
\* projectData.timestamps (Null: no such field), st.shared tells whether the
\* live array is that object.
\* push() and splice() on the live array: seen through projectData as well
ImportMutated(st, stamps) ==
  IF st # Null /\ Val(st).shared THEN Some([Val(st) EXCEPT !.stamps = Some(stamps)])
  ELSE st
\* "timestamps = ..." with another array: projectData keeps its own
ImportUnshared(st) ==
  IF st # Null /\ Val(st).shared THEN Some([Val(st) EXCEPT !.shared = FALSE])
  ELSE st

\* addTimestampBtn click
AddTimestamp(rawLabel, eventType, writeOk) ==
  /\ Len(timestamps) < MaxTimestamps
  /\ LET ts == [time |-> videoTime,
                label |-> LabelOf(rawLabel, videoTime),
                eventType |-> IF eventType # "" THEN eventType ELSE "other",
                notes |-> notesInput]
         stamps == Append(timestamps, ts)
     IN /\ timestamps' = stamps
        /\ notesInput' = ""
        /\ localStorage' = SavedStorage(localStorage, currentVideoFileInfo, syncOffset,
                                        stamps, "", NoExtra, writeOk)
        /\ importState' = ImportMutated(importState, stamps)
  /\ lastError' = Null
  /\ UNCHANGED <<syncVars, csvVars, chartVars, currentVideoFileInfo, videoVars,
                 loopVars>>

RemoveAtLast(seq, index) == SubSeq(seq, 1, Len(seq) - 1)

\* timestamps.splice(index, 1)
RemoveAt(seq, index) ==
  [i \in 1..(Len(seq) - 1) |-> IF i <= index THEN seq[i] ELSE seq[i + 1]]

\* deleteTimestamp's guard: the index is outside the list of n annotations
DeleteRejectsNegativeOnly(index, n) == index < 0
DeleteRejects(index, n) == index < 0 \/ index >= n

\* deleteTimestamp(index), index counted from 0
DeleteTimestamp(index, writeOk) ==
  /\ IF DeleteRejects(index, Len(timestamps))
       THEN UNCHANGED <<timestamps, localStorage, importState>>
       ELSE LET stamps == RemoveAt(timestamps, index)
            IN /\ timestamps' = stamps
               /\ localStorage' = SavedStorage(localStorage, currentVideoFileInfo,
                                               syncOffset, stamps, notesInput, NoExtra,
                                               writeOk)
               /\ importState' = ImportMutated(importState, stamps)
  /\ lastError' = Null
  /\ UNCHANGED <<syncVars, csvVars, chartVars, notesInput, currentVideoFileInfo,
                 videoVars, loopVars>>

\* selectTimestamp(index): jump the video and the charts to the annotation
SelectTimestamp(index) ==
  /\ index \in 0..(Len(timestamps) - 1)
  /\ LET ts == timestamps[index + 1]
         c == IF HasCsv
                THEN ChartsForVideoTime(ts.time, syncOffset, csvData, csvTimesSeconds,
                                        chartAxis, marker)
                ELSE <<chartAxis, marker>>
     IN /\ videoTime' = ts.time
        /\ chartAxis' = c[1]
        /\ marker' = c[2]
  /\ lastError' = Null
  /\ UNCHANGED <<syncVars, csvVars, projectVars, videoSrc, pendingLoad,
                 uploadedVideoReady, timeUpdateListener, loopVars, importState>>

\* the user types into the notes field (no listener is bound to it)
EditNotes(text) ==
  /\ notesInput' = text
  /\ lastError' = Null
  /\ UNCHANGED <<syncVars, csvVars, chartVars, timestamps, currentVideoFileInfo,
                 localStorage, videoVars, loopVars, importState>>

\* ------------------------------------------------------------- video file

\* handleFileChange(): the chosen file becomes the video source
HandleFileChange(file) ==
  /\ videoSrc' = Some(file.content)
  /\ videoTime' = 0
  /\ pendingLoad' = Some([kind |-> "file", file |-> file])
  /\ uploadedVideoReady' = FALSE
  /\ timeUpdateListener' = FALSE
  /\ lastError' = Null
  /\ UNCHANGED <<syncVars, csvVars, chartVars, projectVars, loopVars, importState>>

\* setCurrentVideoFileInfo(file)
FileInfoOfByContent(file) ==
  IF file.content = "c2" THEN Some([name |-> "b.mp4", size |-> 2])
  ELSE Some([name |-> file.name, size |-> file.size])
FileInfoOf(file) == Some([name |-> file.name, size |-> file.size])

\* loadProjectFromLocal() reading the given storage: <<syncOffset, timestamps,
\* notes, chartAxis, marker>> afterwards, for the given identity and live
\* values
\* a stored text that JSON.parse rejects
Unparseable ==
  [f \in ProjectFields |-> IF f = "createdAt" THEN Some("unparseable") ELSE Null]

LoadedFromKeepsNotes(store, info, offset0, stamps0, notes0) ==
  LET key == ProjectStorageKey(info)
      keep == <<offset0, stamps0, notes0, chartAxis, marker>>
  IN IF key = Null THEN keep
     ELSE IF store[Val(key)] = Null THEN keep
     ELSE LET projectData == Val(store[Val(key)])
              offset == IF projectData.syncOffset # Null
                          THEN Val(projectData.syncOffset) ELSE 0
              stamps == IF projectData.timestamps # Null
                          THEN Val(projectData.timestamps) ELSE << >>
          IN <<offset, stamps, notes0, chartAxis, marker>>

LoadedFrom(store, info, offset0, stamps0, notes0) ==
  LET key == ProjectStorageKey(info)
      keep == <<offset0, stamps0, notes0, chartAxis, marker>>
  IN IF key = Null THEN keep
     ELSE IF store[Val(key)] = Null THEN keep
     ELSE IF store[Val(key)] = Some(Unparseable) THEN keep
     ELSE LET projectData == Val(store[Val(key)])
              offset == IF projectData.syncOffset # Null
                          THEN Val(projectData.syncOffset) ELSE 0
              stamps == IF projectData.timestamps # Null
                          THEN Val(projectData.timestamps) ELSE << >>
              notes == IF projectData.notes # Null THEN Val(projectData.notes) ELSE ""
              c == IF HasCsv
                     THEN ChartsForVideoTime(videoTime, offset, csvData, csvTimesSeconds,
                                             chartAxis, marker)
                     ELSE <<chartAxis, marker>>
          IN <<offset, stamps, notes, c[1], c[2]>>

\* loadProjectFromLocal() gets past JSON.parse and assigns the live values
LoadReplaces(store, info) ==
  LET key == ProjectStorageKey(info)
  IN /\ key # Null
     /\ store[Val(key)] # Null
     /\ store[Val(key)] # Some(Unparseable)

\* loadProjectFromLocal() on the live state, for the given identity
LoadedProject(info) == LoadedFrom(localStorage, info, syncOffset, timestamps, notesInput)

\* video.onloadedmetadata of a file chosen by the user or taken from a bundle
LoadedMetadata ==
  /\ pendingLoad # Null
  /\ Val(pendingLoad).kind \in {"file", "import"}
  /\ pendingLoad' = Null
  /\ uploadedVideoReady' = TRUE
  /\ IF Val(pendingLoad).kind = "file"
       THEN LET info == FileInfoOf(Val(pendingLoad).file)
                p == LoadedProject(info)
            IN /\ currentVideoFileInfo' = info
               /\ syncOffset' = p[1]
               /\ timestamps' = p[2]
               /\ notesInput' = p[3]
               /\ chartAxis' = p[4]
               /\ marker' = p[5]
               /\ timeUpdateListener' = TRUE
               /\ importState' = IF LoadReplaces(localStorage, info)
                                   THEN ImportUnshared(importState) ELSE importState
       ELSE UNCHANGED <<currentVideoFileInfo, syncOffset, timestamps, notesInput,
                        chartVars, timeUpdateListener, importState>>
  /\ lastError' = Null
  /\ UNCHANGED <<videoMarkedTime, dataMarkedTime, setSyncDisabled, csvVars,
                 localStorage, videoTime, videoSrc, loopVars>>

\* the video position changes (playback or scrubbing) and "timeupdate" fires
TimeUpdate(t) ==
  /\ videoSrc # Null
  /\ videoTime' = t
  /\ IF timeUpdateListener /\ HasCsv /\ ~isRunning
       THEN LET c == ChartsForVideoTime(t, syncOffset, csvData, csvTimesSeconds,
                                        chartAxis, marker)
            IN chartAxis' = c[1] /\ marker' = c[2]
       ELSE UNCHANGED chartVars
  /\ lastError' = Null
  /\ UNCHANGED <<syncVars, csvVars, projectVars, videoSrc, pendingLoad,
                 uploadedVideoReady, timeUpdateListener, loopVars, importState>>

\* ----------------------------------------------------------- tracking loop

\* number of render-loop chains alive: a requested frame or a renderFrame
\* call suspended in the detector
Chains == Cardinality(rafPending) + inflight
StartsPending == starts.gum + starts.meta + starts.play

ClockStepMs == 10
ClockValues == { i * ClockStepMs : i \in 0..MaxNow }

\* the tail of handleStart: reset the frame state and request the first frame
StartCommit(pending) ==
  LET id == FreshRafId(pending, animationId)
  IN /\ frameIndex' = 0
     /\ lastPose' = Null
     /\ isRunning' = TRUE
     /\ animationId' = Some(id)
     /\ rafPending' = pending \cup {id}

\* handleStart() up to its first await (or to its end if it does not suspend);
\* paused is video.paused
HandleStart(paused) ==
  /\ ~isRunning => (Chains < MaxChains /\ StartsPending < MaxStarts)
  /\ lastError' = Null
  /\ IF isRunning
       THEN UNCHANGED <<loopVars>>
       ELSE IF currentMode = "live"
         THEN IF ~cameraStream
                THEN /\ starts' = [starts EXCEPT !.gum = @ + 1]
                     /\ UNCHANGED <<currentMode, isRunning, animationId, rafPending,
                                    frameIndex, lastPose, drawnPose, inflight,
                                    cameraStream, lastImuUpdateTime, now>>
                ELSE /\ StartCommit(rafPending)
                     /\ UNCHANGED <<currentMode, drawnPose, inflight, starts,
                                    cameraStream, lastImuUpdateTime, now>>
         ELSE IF ~uploadedVideoReady
                THEN UNCHANGED <<loopVars>>
                ELSE IF paused \/ videoTime = 0
                  THEN /\ starts' = [starts EXCEPT !.play = @ + 1]
                       /\ UNCHANGED <<currentMode, isRunning, animationId, rafPending,
                                      frameIndex, lastPose, drawnPose, inflight,
                                      cameraStream, lastImuUpdateTime, now>>
                  ELSE /\ StartCommit(rafPending)
                       /\ UNCHANGED <<currentMode, drawnPose, inflight, starts,
                                      cameraStream, lastImuUpdateTime, now>>
  /\ UNCHANGED <<syncVars, csvVars, chartVars, projectVars, videoVars, importState>>

\* setupCamera(): getUserMedia settles; on success the stream becomes the
\* video source, on failure handleStart reports it and returns
GetUserMediaDone(ok) ==
  /\ starts.gum > 0
  /\ IF ok
       THEN /\ starts' = [starts EXCEPT !.gum = @ - 1, !.meta = @ + 1]
            /\ cameraStream' = TRUE
            /\ videoSrc' = Some("camera")
            /\ pendingLoad' = Some([kind |-> "camera", file |-> Null])
            /\ lastError' = Null
       ELSE /\ starts' = [starts EXCEPT !.gum = @ - 1]
            /\ lastError' = Some("Camera could not be started.")
            /\ UNCHANGED <<cameraStream, videoSrc, pendingLoad>>
  /\ UNCHANGED <<syncVars, csvVars, chartVars, projectVars, videoTime,
                 uploadedVideoReady, timeUpdateListener, currentMode, isRunning,
                 animationId, rafPending, frameIndex, lastPose, drawnPose, inflight,
                 lastImuUpdateTime, now, importState>>

\* video.onloadedmetadata set by setupCamera(): the awaiting handleStart resumes
CameraMetadata ==
  /\ pendingLoad # Null
  /\ Val(pendingLoad).kind = "camera"
  /\ starts.meta > 0
  /\ Chains < MaxChains
  /\ pendingLoad' = Null
  /\ starts' = [starts EXCEPT !.meta = @ - 1]
  /\ StartCommit(rafPending)
  /\ lastError' = Null
  /\ UNCHANGED <<syncVars, csvVars, chartVars, projectVars, videoTime, videoSrc,
                 uploadedVideoReady, timeUpdateListener, currentMode, drawnPose,
                 inflight, cameraStream, lastImuUpdateTime, now, importState>>

\* "await video.play()" settles (resolved or rejected): handleStart resumes
PlayDone ==
  /\ starts.play > 0
  /\ Chains < MaxChains
  /\ starts' = [starts EXCEPT !.play = @ - 1]
  /\ StartCommit(rafPending)
  /\ lastError' = Null
  /\ UNCHANGED <<syncVars, csvVars, chartVars, projectVars, videoVars, currentMode,
                 drawnPose, inflight, cameraStream, lastImuUpdateTime, now, importState>>

TickCancelledNever(running) == FALSE

\* "if (!isRunning) return;" at the top of renderFrame
TickCancelled(running) == ~running

NextFrameIndexByTwo(index) == index + 2

\* "frameIndex++"
NextFrameIndex(index) == index + 1

ShouldUpdatePoseEveryFrame(mode, index, pose) == TRUE

\* frame skipping: does this tick call the detector?
ShouldUpdatePose(mode, index, pose) ==
  IF mode = "upload" THEN index % UPLOAD_FRAME_SKIP = 0 \/ pose = Null
  ELSE TRUE

ThrottleOpenAlways(t, last) == t >= last

\* the throttle test of the render loop
ThrottleOpen(t, last) == t - last > IMU_UPDATE_THROTTLE_MS

\* renderFrame() from "if (!poseToDraw)" to its end: draw the pose, update the
\* charts if the throttle allows, request the next frame
RenderRest(pose, pending) ==
  LET id == FreshRafId(pending, animationId)
  IN /\ animationId' = Some(id)
     /\ rafPending' = pending \cup {id}
     /\ IF pose = Null
          THEN UNCHANGED <<drawnPose, chartVars, lastImuUpdateTime>>
          ELSE /\ drawnPose' = pose
               /\ IF currentMode = "upload" /\ HasCsv /\ ThrottleOpen(now, lastImuUpdateTime)
                    THEN LET c == ChartsForVideoTime(videoTime, syncOffset, csvData,
                                                     csvTimesSeconds, chartAxis, marker)
                         IN /\ chartAxis' = c[1]
                            /\ marker' = c[2]
                            /\ lastImuUpdateTime' = now
                    ELSE UNCHANGED <<chartVars, lastImuUpdateTime>>

\* a requested animation frame runs renderFrame() up to the detector call (or
\* to its end when the tick reuses the last pose); ready is video.readyState >= 2
RenderFrame(id, ready) ==
  /\ id \in rafPending
  /\ ready /\ isRunning => frameIndex < MaxFrameIndex
  /\ lastError' = Null
  /\ IF TickCancelled(isRunning)
       THEN /\ rafPending' = rafPending \ {id}
            /\ UNCHANGED <<animationId, frameIndex, inflight, drawnPose, chartVars,
                           lastImuUpdateTime>>
       ELSE IF ~ready
         THEN LET nid == FreshRafId(rafPending \ {id}, animationId)
              IN /\ animationId' = Some(nid)
                 /\ rafPending' = (rafPending \ {id}) \cup {nid}
                 /\ UNCHANGED <<frameIndex, inflight, drawnPose, chartVars,
                                lastImuUpdateTime>>
         ELSE /\ frameIndex' = NextFrameIndex(frameIndex)
              /\ IF ShouldUpdatePose(currentMode, NextFrameIndex(frameIndex), lastPose)
                   THEN /\ inflight' = inflight + 1
                        /\ rafPending' = rafPending \ {id}
                        /\ UNCHANGED <<animationId, drawnPose, chartVars,
                                       lastImuUpdateTime>>
                   ELSE /\ RenderRest(lastPose, rafPending \ {id})
                        /\ UNCHANGED inflight
  /\ UNCHANGED <<syncVars, csvVars, projectVars, videoVars, currentMode, isRunning,
                 lastPose, starts, cameraStream, now, importState>>

\* detector.estimatePoses resolves with poses[0] (Null: no pose found) and the
\* suspended renderFrame() call runs to its end
InferenceDone(result) ==
  /\ inflight > 0
  /\ inflight' = inflight - 1
  /\ lastPose' = result
  /\ RenderRest(result, rafPending)
  /\ lastError' = Null
  /\ UNCHANGED <<syncVars, csvVars, projectVars, videoVars, currentMode, isRunning,
                 frameIndex, starts, cameraStream, now, importState>>

\* detector.estimatePoses rejects: the suspended renderFrame() call ends with
\* the exception, before lastPose is assigned and the next frame is requested
InferenceRejected ==
  /\ inflight > 0
  /\ inflight' = inflight - 1
  /\ lastError' = Null
  /\ UNCHANGED <<syncVars, csvVars, chartVars, projectVars, videoVars, currentMode,
                 isRunning, animationId, rafPending, frameIndex, lastPose, drawnPose,
                 starts, cameraStream, lastImuUpdateTime, now, importState>>

\* stopBtn click
StopTracking ==
  /\ LET r == StopTrackingResult
     IN /\ isRunning' = r[1]
        /\ animationId' = r[2]
        /\ rafPending' = r[3]
  /\ lastError' = Null
  /\ UNCHANGED <<syncVars, csvVars, chartVars, projectVars, videoVars, currentMode,
                 frameIndex, lastPose, drawnPose, inflight, starts, cameraStream,
                 lastImuUpdateTime, now, importState>>

\* performance.now() advances
AdvanceClock ==
  /\ now + ClockStepMs \in ClockValues
  /\ now' = now + ClockStepMs
  /\ UNCHANGED <<syncVars, csvVars, chartVars, projectVars, videoVars, currentMode,
                 isRunning, animationId, rafPending, frameIndex, lastPose, drawnPose,
                 inflight, starts, cameraStream, lastImuUpdateTime, importState>>
  /\ lastError' = Null

\* selectMode(mode)
SelectMode(mode) ==
  /\ lastError' = Null
  /\ IF mode = currentMode
       THEN UNCHANGED <<setSyncDisabled, videoSrc, pendingLoad, uploadedVideoReady,
                        loopVars>>
       ELSE LET r == StopTrackingResult
            IN /\ isRunning' = r[1]
               /\ animationId' = r[2]
               /\ rafPending' = r[3]
               /\ currentMode' = mode
               /\ frameIndex' = 0
               /\ lastPose' = Null
               /\ setSyncDisabled' = IF mode = "live" THEN TRUE ELSE setSyncDisabled
               /\ cameraStream' = IF mode = "live" THEN cameraStream ELSE FALSE
               /\ videoSrc' = Null
               /\ pendingLoad' = Null
               /\ uploadedVideoReady' = FALSE
               /\ UNCHANGED <<drawnPose, inflight, starts, lastImuUpdateTime, now>>
  /\ UNCHANGED <<syncOffset, videoMarkedTime, dataMarkedTime, csvVars, chartVars,
                 projectVars, videoTime, timeUpdateListener, importState>>

\* clearAll()
ClearAll ==
  /\ LET r == StopTrackingResult
     IN /\ isRunning' = r[1]
        /\ animationId' = r[2]
        /\ rafPending' = r[3]
  /\ cameraStream' = FALSE
  /\ timeUpdateListener' = FALSE
  /\ videoSrc' = Null
  /\ pendingLoad' = Null
  /\ videoTime' = 0
  /\ uploadedVideoReady' = FALSE
  /\ frameIndex' = 0
  /\ lastPose' = Null
  /\ drawnPose' = Null
  /\ csvData' = Null
  /\ csvTimesSeconds' = << >>
  /\ syncOffset' = 0
  /\ videoMarkedTime' = Null
  /\ dataMarkedTime' = Null
  /\ chartAxis' = Null
  /\ marker' = Null
  /\ setSyncDisabled' = TRUE
  /\ timestamps' = << >>
  /\ notesInput' = ""
  /\ importState' = ImportUnshared(importState)
  /\ lastError' = Null
  /\ UNCHANGED <<currentVideoFileInfo, localStorage, currentMode, inflight, starts,
                 lastImuUpdateTime, now>>

\* ------------------------------------------------------------------ import

\* project.json contents offered to import: a full aggregate and one that
\* lacks syncOffset, timestamps and notes
MetaFull ==
  [syncOffset |-> Some(2 * SampleUnits),
   timestamps |-> Some(<<[time |-> SampleUnits, label |-> LabelOf("L", SampleUnits),
                          eventType |-> "jump", notes |-> "n"]>>),
   sampleRate |-> Some(SAMPLE_RATE_HZ), createdAt |-> Some("iso0"),
   notes |-> Some("n"), videoFileName |-> Some("video_from_project.mp4"),
   csvFileName |-> Some("imu_data.csv")]
MetaBare ==
  [syncOffset |-> Null, timestamps |-> Null, sampleRate |-> Some(SAMPLE_RATE_HZ),
   createdAt |-> Some("iso0"), notes |-> Null, videoFileName |-> Null,
   csvFileName |-> Null]
Metas == {MetaFull, MetaBare}

BundleVideo == [name |-> "b.mp4", size |-> 2, content |-> "c3"]

\* a bundle: the project.json entry, the first file under video/, the first
\* .csv file under data/ (Null: no such entry)
Bundles ==
  { [meta |-> Some(MetaFull), video |-> Some(BundleVideo), csv |-> Some(CsvOne)],
    [meta |-> Some(MetaBare), video |-> Null, csv |-> Some(CsvEmpty)],
    [meta |-> Some(MetaFull), video |-> Null, csv |-> Null],
    [meta |-> Some(MetaFull), video |-> Some(BundleVideo), csv |-> Some(CsvEmpty)],
    [meta |-> Null, video |-> Some(BundleVideo), csv |-> Some(CsvOne)] }

\* "projectData.syncOffset || 0", "projectData.timestamps || []",
\* "projectData.notes || ''"
MetaOffsetDropped(meta) == 0
MetaOffset(meta) ==
  IF meta.syncOffset # Null /\ meta.syncOffset # Some(0) THEN Val(meta.syncOffset) ELSE 0
MetaTimestamps(meta) == IF meta.timestamps # Null THEN Val(meta.timestamps) ELSE << >>
MetaNotes(meta) == IF meta.notes # Null THEN Val(meta.notes) ELSE ""

\* the import's last statements: charts to the current video time, then
\* saveProjectToLocal(projectData)
ImportFinish(offset, stamps, notes, info, data, times, axis, meta, writeOk) ==
  LET c == ChartsForVideoTime(videoTime', offset, data, times, axis, marker)
  IN /\ chartAxis' = c[1]
     /\ marker' = c[2]
     /\ localStorage' = SavedStorage(localStorage, info, offset, stamps, notes, meta,
                                     writeOk)
     /\ importState' = Null

\* the import's projectData object: project.json with its timestamps array
\* as it is now
ImportExtra(st) == [Val(st.bundle.meta) EXCEPT !.timestamps = st.stamps]

\* the import from the look-up of the data/ entry on: suspend for the entry's
\* text, or finish when the bundle has none
ImportAfterVideo(offset, stamps, notes, info, st, writeOk) ==
  IF st.bundle.csv # Null
    THEN /\ importState' = Some([st EXCEPT !.pc = "csv"])
         /\ UNCHANGED <<chartVars, localStorage>>
    ELSE ImportFinish(offset, stamps, notes, info, csvData, csvTimesSeconds, chartAxis,
                      ImportExtra(st), writeOk)

\* the user picks a .zip file: JSZip.loadAsync(file) starts
ImportZip(bundle) ==
  /\ importState = Null
  /\ importState' = Some([pc |-> "load", bundle |-> bundle, stamps |-> Null,
                           shared |-> FALSE])
  /\ lastError' = Null
  /\ UNCHANGED <<syncVars, csvVars, chartVars, projectVars, videoVars, loopVars>>

\* "!projectFile": the archive has no project.json entry
MetaMissingNever(bundle) == FALSE
MetaMissing(bundle) == bundle.meta = Null

\* the archive is open: look up project.json and read it
ImportLoaded ==
  /\ importState # Null
  /\ Val(importState).pc = "load"
  /\ IF MetaMissing(Val(importState).bundle)
       THEN /\ importState' = Null
            /\ lastError' = Some("project.json not found in ZIP.")
       ELSE /\ importState' = Some([Val(importState) EXCEPT !.pc = "meta"])
            /\ lastError' = Null
  /\ UNCHANGED <<syncVars, csvVars, chartVars, projectVars, videoVars, loopVars>>

\* project.json is read: apply the metadata, then look up the video entry
ImportMeta(writeOk) ==
  /\ importState # Null
  /\ Val(importState).pc = "meta"
  /\ LET bundle == Val(importState).bundle
         meta == Val(bundle.meta)
         st == [Val(importState) EXCEPT !.stamps = meta.timestamps,
                                        !.shared = meta.timestamps # Null]
     IN /\ syncOffset' = MetaOffset(meta)
        /\ timestamps' = MetaTimestamps(meta)
        /\ notesInput' = MetaNotes(meta)
        /\ UNCHANGED videoTime
        /\ IF bundle.video # Null
             THEN /\ importState' = Some([st EXCEPT !.pc = "video"])
                  /\ UNCHANGED <<chartVars, localStorage>>
             ELSE ImportAfterVideo(MetaOffset(meta), MetaTimestamps(meta),
                                   MetaNotes(meta), currentVideoFileInfo, st, writeOk)
  /\ lastError' = Null
  /\ UNCHANGED <<videoMarkedTime, dataMarkedTime, setSyncDisabled, csvVars,
                 currentVideoFileInfo, videoSrc, pendingLoad, uploadedVideoReady,
                 timeUpdateListener, loopVars>>

\* the video entry is read: it becomes the video source and the identity
ImportVideo(writeOk) ==
  /\ importState # Null
  /\ Val(importState).pc = "video"
  /\ LET bundle == Val(importState).bundle
         file == Val(bundle.video)
     IN /\ currentVideoFileInfo' = FileInfoOf(file)
        /\ videoSrc' = Some(file.content)
        /\ videoTime' = 0
        /\ uploadedVideoReady' = FALSE
        /\ pendingLoad' = Some([kind |-> "import", file |-> file])
        /\ ImportAfterVideo(syncOffset, timestamps, notesInput, FileInfoOf(file),
                            Val(importState), writeOk)
  /\ lastError' = Null
  /\ UNCHANGED <<syncVars, csvVars, timestamps, notesInput, timeUpdateListener,
                 loopVars>>

\* the data entry is read: parse it as a CSV upload does, then finish
ImportCsv(writeOk) ==
  /\ importState # Null
  /\ Val(importState).pc = "csv"
  /\ LET bundle == Val(importState).bundle
         text == Val(bundle.csv)
         rows == ParseCsvRows(text)
     IN IF Len(NonBlankLines(text)) = 0
          THEN /\ importState' = Null
               /\ UNCHANGED <<csvVars, chartVars, localStorage>>
          ELSE /\ csvData' = Some(rows)
               /\ csvTimesSeconds' = TimesOf(rows)
               /\ UNCHANGED videoTime
               /\ ImportFinish(syncOffset, timestamps, notesInput, currentVideoFileInfo,
                               Some(rows), TimesOf(rows),
                               FullAxis(Some(rows), TimesOf(rows)),
                               ImportExtra(Val(importState)), writeOk)
  /\ lastError' = Null
  /\ UNCHANGED <<syncVars, timestamps, notesInput, currentVideoFileInfo, videoVars,
                 loopVars>>

\* the user picks a .json file (metadata only); Null is a text that JSON.parse
\* rejects
ImportJson(meta, writeOk) ==
  /\ IF meta = Null
       THEN /\ lastError' = Some("Could not parse JSON project file.")
            /\ UNCHANGED <<syncOffset, timestamps, notesInput, localStorage, importState>>
       ELSE /\ syncOffset' = MetaOffset(Val(meta))
            /\ timestamps' = MetaTimestamps(Val(meta))
            /\ notesInput' = MetaNotes(Val(meta))
            /\ localStorage' = SavedStorage(localStorage, currentVideoFileInfo,
                                            MetaOffset(Val(meta)),
                                            MetaTimestamps(Val(meta)),
                                            MetaNotes(Val(meta)), Val(meta), writeOk)
            /\ importState' = ImportUnshared(importState)
            /\ lastError' = Null
  /\ UNCHANGED <<videoMarkedTime, dataMarkedTime, setSyncDisabled, csvVars, chartVars,
                 currentVideoFileInfo, videoVars, loopVars>>

\* ------------------------------------------------------------------ export

\* String(row[h]) of a parsed value
StringOf(v) == IF v = 1 THEN "1" ELSE IF v = 2 THEN "2" ELSE "0"

\* Object.keys(csvData[0]): the header names in the order of the upload
HeaderOrder == <<"ax", "ay">>
HeadersOf(row) == SelectSeq(HeaderOrder, LAMBDA h : h \in DOMAIN row)

\* the text of data/imu_data.csv that exportProject generates
CsvTextOf(rows) ==
  LET headers == HeadersOf(rows[1])
  IN <<headers>> \o
     [i \in 1..Len(rows) |->
        [j \in 1..Len(headers) |-> StringOf(rows[i][headers[j]])]]

\* blob.size of the video behind a blob: URL
ContentSize(content) == (CHOOSE f \in VideoFiles : f.content = content).size

\* project.json as exportProject writes it
ExportedMetaZeroOffset ==
  [syncOffset |-> Some(0), timestamps |-> Some(timestamps),
   sampleRate |-> Some(SAMPLE_RATE_HZ), createdAt |-> Some("iso"),
   notes |-> Some(notesInput), videoFileName |-> Some(ExportedVideoName),
   csvFileName |-> IF csvData # Null /\ Len(Val(csvData)) > 0
                     THEN Some("imu_data.csv") ELSE Null]
ExportedMeta ==
  [syncOffset |-> Some(syncOffset), timestamps |-> Some(timestamps),
   sampleRate |-> Some(SAMPLE_RATE_HZ), createdAt |-> Some("iso"),
   notes |-> Some(notesInput), videoFileName |-> Some(ExportedVideoName),
   csvFileName |-> IF csvData # Null /\ Len(Val(csvData)) > 0
                     THEN Some("imu_data.csv") ELSE Null]

\* the video entry: the blob behind video.src, if the source is a blob: URL
\* and the fetch succeeds (fetchOk)
ExportedVideo(fetchOk) ==
  IF videoSrc # Null /\ videoSrc # Some("camera") /\ fetchOk
    THEN Some([name |-> ExportedVideoName, size |-> ContentSize(Val(videoSrc)),
               content |-> Val(videoSrc)])
    ELSE Null

\* the data entry: the CSV regenerated from the parsed rows
ExportedCsv ==
  IF csvData # Null /\ Len(Val(csvData)) > 0 THEN Some(CsvTextOf(Val(csvData))) ELSE Null

\* the ZIP that exportProject() offers for download
ExportBundle(fetchOk) ==
  [meta |-> Some(ExportedMeta), video |-> ExportedVideo(fetchOk), csv |-> ExportedCsv]

\* exportProject() with a file name given, and the exported file picked in
\* importProject(): the bundle is fixed here, the import's steps follow later
ExportImport(fetchOk) == ImportZip(ExportBundle(fetchOk))

\* ---------------------------------------------------------- specifications

SyncStep ==
  \/ MarkVideo
  \/ MarkData
  \/ \E time \in SliderValues : SliderInput(time)
  \/ \E writeOk \in BOOLEAN : ApplySync(writeOk)

ProjectStep ==
  \/ \E text \in CsvFiles : LoadCsv(text)
  \/ \E rawLabel \in Labels, eventType \in EventTypes, writeOk \in BOOLEAN :
       AddTimestamp(rawLabel, eventType, writeOk)
  \/ \E index \in -1..MaxTimestamps, writeOk \in BOOLEAN : DeleteTimestamp(index, writeOk)
  \/ \E index \in 0..(MaxTimestamps - 1) : SelectTimestamp(index)
  \/ \E text \in NotesTexts : EditNotes(text)
  \/ \E file \in VideoFiles : HandleFileChange(file)
  \/ LoadedMetadata
  \/ \E t \in VideoTimes : TimeUpdate(t)

ImportStep ==
  \/ \E bundle \in Bundles : ImportZip(bundle)
  \/ ImportLoaded
  \/ \E writeOk \in BOOLEAN : ImportMeta(writeOk)
  \/ \E writeOk \in BOOLEAN : ImportVideo(writeOk)
  \/ \E writeOk \in BOOLEAN : ImportCsv(writeOk)
  \/ \E meta \in {Null} \cup { Some(m) : m \in Metas }, writeOk \in BOOLEAN :
       ImportJson(meta, writeOk)

LoopStep ==
  \/ \E paused \in BOOLEAN : HandleStart(paused)
  \/ \E ok \in BOOLEAN : GetUserMediaDone(ok)
  \/ CameraMetadata
  \/ PlayDone
  \/ \E id \in 1..(MaxChains + 2), ready \in BOOLEAN : RenderFrame(id, ready)
  \/ \E result \in {Null} \cup { Some(p) : p \in Poses } : InferenceDone(result)
  \/ StopTracking

ModeStep ==
  \/ \E mode \in {"live", "upload"} : SelectMode(mode)
  \/ ClearAll


SyncFile == [name |-> "a.mp4", size |-> 1, content |-> "c1"]

Handler ==
  \/ SyncStep
  \/ \E text \in CsvFiles : LoadCsv(text)
  \/ AddTimestamp("", "", TRUE)
  \/ \E index \in -1..MaxTimestamps : DeleteTimestamp(index, TRUE)
  \/ \E index \in 0..(MaxTimestamps - 1) : SelectTimestamp(index)
  \/ HandleFileChange(SyncFile)
  \/ LoadedMetadata
  \/ \E t \in VideoTimes : TimeUpdate(t)
  \/ \E bundle \in Bundles : ImportZip(bundle)
  \/ ImportLoaded
  \/ ImportMeta(TRUE)
  \/ ImportVideo(TRUE)
  \/ ImportCsv(TRUE)
  \/ ImportJson(Some(MetaFull), TRUE)
  \/ HandleStart(FALSE)
  \/ GetUserMediaDone(TRUE)
  \/ CameraMetadata
  \/ PlayDone
  \/ \E id \in 1..(MaxChains + 2), ready \in BOOLEAN : RenderFrame(id, ready)
  \/ \E result \in {Null, Some("p1")} : InferenceDone(result)
  \/ StopTracking
  \/ ModeStep

\* every run of at most MaxSteps handlers
Next == Handler /\ steps < MaxSteps /\ steps' = steps + 1

Spec == Init /\ [][Next]_vars

\* the tracking loop, explored exhaustively: one video file, both modes, every
\* interleaving of the loop's callbacks with start, stop and mode switch
LoopHandler ==
  \/ LoopStep
  \/ \E mode \in {"live", "upload"} : SelectMode(mode)
  \/ HandleFileChange(SyncFile)
  \/ LoadedMetadata

NextLoop == LoopHandler /\ UNCHANGED steps

SpecLoop == Init /\ [][NextLoop]_vars

\* the windowed view as a function of the video time and the offset: a video
\* and a CSV are loaded, the offset is any of ViewOffsets, and the video is
\* moved to any of ViewVideoTimes while tracking is stopped
InitView ==
  /\ syncOffset \in ViewOffsets
  /\ videoMarkedTime = Null
  /\ dataMarkedTime = Null
  /\ setSyncDisabled = TRUE
  /\ csvData = Some(ParseCsvRows(CsvOne))
  /\ csvTimesSeconds = TimesOf(ParseCsvRows(CsvOne))
  /\ chartAxis = FullAxis(csvData, csvTimesSeconds)
  /\ marker = Null
  /\ timestamps = << >>
  /\ notesInput = ""
  /\ currentVideoFileInfo = FileInfoOf(SyncFile)
  /\ localStorage = [k \in StorageKeys |-> Null]
  /\ videoTime = 0
  /\ videoSrc = Some(SyncFile.content)
  /\ pendingLoad = Null
  /\ uploadedVideoReady = TRUE
  /\ timeUpdateListener = TRUE
  /\ currentMode = "upload"
  /\ isRunning = FALSE
  /\ animationId = Null
  /\ rafPending = {}
  /\ frameIndex = 0
  /\ lastPose = Null
  /\ drawnPose = Null
  /\ inflight = 0
  /\ starts = [gum |-> 0, meta |-> 0, play |-> 0]
  /\ cameraStream = FALSE
  /\ lastImuUpdateTime = 0
  /\ now = 0
  /\ importState = Null
  /\ lastError = Null
  /\ steps = 0

NextView == (\E t \in ViewVideoTimes : TimeUpdate(t)) /\ UNCHANGED steps

SpecView == InitView /\ [][NextView]_vars


\* the throttled chart update of the render loop against the clock: a video
\* and a CSV are loaded in upload mode, the page has just been loaded (clock
\* and lastImuUpdateTime at 0), and the loop is started, ticks, is stopped and
\* restarted while performance.now() advances
InitThrottle == InitView /\ syncOffset = 0

ThrottleHandler ==
  \/ HandleStart(TRUE)
  \/ PlayDone
  \/ \E id \in 1..(MaxChains + 2) : RenderFrame(id, TRUE)
  \/ \E result \in {Null, Some("p1")} : InferenceDone(result)
  \/ StopTracking
  \/ AdvanceClock

NextThrottle == ThrottleHandler /\ UNCHANGED steps

SpecThrottle == InitThrottle /\ [][NextThrottle]_vars


\* the project and its persistence with tracking stopped: videos are chosen
\* and loaded, a CSV is loaded, the video is moved,
\* marks are applied, annotations and notes are edited, legacy JSON projects
\* are imported, everything is cleared, and a write to localStorage may fail
ProjectHandler ==
  \/ MarkVideo
  \/ MarkData
  \/ \E writeOk \in BOOLEAN : ApplySync(writeOk)
  \/ LoadCsv(CsvOne)
  \/ \E t \in VideoTimes : TimeUpdate(t)
  \/ \E rawLabel \in Labels, writeOk \in BOOLEAN : AddTimestamp(rawLabel, "", writeOk)
  \/ \E index \in -1..MaxTimestamps, writeOk \in BOOLEAN : DeleteTimestamp(index, writeOk)
  \/ \E text \in NotesTexts : EditNotes(text)
  \/ \E file \in VideoFiles : HandleFileChange(file)
  \/ LoadedMetadata
  \/ \E meta \in {Null} \cup { Some(m) : m \in Metas }, writeOk \in BOOLEAN :
       ImportJson(meta, writeOk)
  \/ ClearAll

\* every run of at most MaxProjectSteps handlers
NextProject == ProjectHandler /\ steps < MaxProjectSteps /\ steps' = steps + 1

SpecProject == Init /\ [][NextProject]_vars


\* export and import: a project is built (legacy import, annotation, notes,
\* video, CSV), exported, and the exported bundle is imported, while the page
\* may be cleared or edited in between
ExportHandler ==
  \/ ImportJson(Some(MetaFull), TRUE)
  \/ \E text \in NotesTexts : EditNotes(text)
  \/ HandleFileChange(SyncFile)
  \/ LoadedMetadata
  \/ LoadCsv(CsvOne)
  \/ \E fetchOk \in BOOLEAN : ExportImport(fetchOk)
  \/ ImportLoaded
  \/ ImportMeta(TRUE)
  \/ ImportVideo(TRUE)
  \/ ImportCsv(TRUE)
  \/ ClearAll

NextExport == ExportHandler /\ UNCHANGED steps

SpecExport == Init /\ [][NextExport]_vars


\* the render loop with a playing video: a video and a CSV are loaded in
\* upload mode, the loop is started and stopped, the video's time and the
\* clock advance on their own, and the detector may or may not answer
Playback == \E t \in VideoTimes : t > videoTime /\ TimeUpdate(t)
Tick == \E id \in 1..(MaxChains + 2) : RenderFrame(id, TRUE)

HungHandler ==
  \/ HandleStart(TRUE) \/ PlayDone
  \/ Tick
  \/ InferenceDone(Some("p1"))
  \/ StopTracking
  \/ AdvanceClock
  \/ Playback

NextHung == HungHandler /\ UNCHANGED steps

\* "timeupdate" fires with a later time while the video can play on: within
\* NextHung these are the steps of Playback, and Playback is enabled exactly
\* when a source is set and a later time exists
VideoAdvances ==
  /\ videoSrc # Null
  /\ \E t \in VideoTimes : t > videoTime /\ videoTime' = t

\* the video plays on and the clock advances whatever the page does; nothing
\* makes the detector answer or the user click, and a hung loop has no frame
\* requested, so no fairness is assumed for the detector, the buttons or
\* the frame callbacks
SpecHung ==
  /\ InitThrottle
  /\ [][NextHung]_vars
  /\ WF_videoTime(VideoAdvances)
  /\ WF_vars(AdvanceClock /\ UNCHANGED steps)


\* the stored entry of a video is replaced from outside the page (another
\* version of the page, a manual edit) by a text that JSON.parse rejects
StorageCorrupted ==
  /\ \E key \in StorageKeys :
       localStorage' = [localStorage EXCEPT ![key] = Some(Unparseable)]
  /\ lastError' = Null
  /\ UNCHANGED <<syncVars, csvVars, chartVars, timestamps, notesInput,
                 currentVideoFileInfo, videoVars, loopVars, importState>>

\* failures: a video and a CSV are loaded in upload mode; the loop runs with a
\* detector that may reject, annotations are added with storage writes that
\* may fail, and the video is selected again with a stored project that may be
\* unparseable
FailHandler ==
  \/ HandleStart(TRUE) \/ PlayDone
  \/ Tick
  \/ InferenceDone(Some("p1"))
  \/ InferenceRejected
  \/ StopTracking
  \/ \E writeOk \in BOOLEAN : AddTimestamp("", "", writeOk)
  \/ StorageCorrupted
  \/ HandleFileChange(SyncFile)
  \/ LoadedMetadata

NextFail == FailHandler /\ UNCHANGED steps

SpecFail == InitThrottle /\ [][NextFail]_vars


\* the tracking loop under the browser's scheduling: a requested animation
\* frame that is not cancelled is run; nothing makes the detector answer, the
\* camera open or the user click
AnyTick == \E id \in 1..(MaxChains + 2), ready \in BOOLEAN : RenderFrame(id, ready)

SpecStop == Init /\ [][NextLoop]_vars /\ WF_vars(AnyTick /\ UNCHANGED steps)


\* mode switches against the tracking loop: the loop is started in either
\* mode and is stopped by a mode switch only (no Stop click, no clearAll), so
\* a stopped controller has either never run or was stopped by a switch
SwitchHandler ==
  \/ HandleFileChange(SyncFile)
  \/ LoadedMetadata
  \/ \E paused \in BOOLEAN : HandleStart(paused)
  \/ GetUserMediaDone(TRUE)
  \/ CameraMetadata
  \/ PlayDone
  \/ Tick
  \/ \E result \in {Null, Some("p1")} : InferenceDone(result)
  \/ \E mode \in {"live", "upload"} : SelectMode(mode)

NextSwitch == SwitchHandler /\ UNCHANGED steps

SpecSwitch == Init /\ [][NextSwitch]_vars


\* clearAll against the running page: a video and a CSV are loaded, marks and
\* annotations are made, the loop is started and ticks, and Clear is the only
\* control that stops the loop (no Stop click, no mode switch, no import), so
\* a callback that is pending on a cleared page was requested before the Clear
ClearHandler ==
  \/ HandleFileChange(SyncFile)
  \/ LoadedMetadata
  \/ LoadCsv(CsvOne)
  \/ MarkVideo
  \/ MarkData
  \/ AddTimestamp("", "", TRUE)
  \/ \E paused \in BOOLEAN : HandleStart(paused)
  \/ PlayDone
  \/ Tick
  \/ \E result \in {Null, Some("p1")} : InferenceDone(result)
  \/ ClearAll

NextClear == ClearHandler /\ UNCHANGED steps

SpecClear == Init /\ [][NextClear]_vars


\* user actions against an import under way: a video and a CSV are loaded,
\* marks are set and applied and annotations are added and deleted while a
\* bundle with project.json and readable entries is imported
RaceBundles == { b \in Bundles : b.meta # Null /\ b.csv # Some(CsvEmpty) }

RaceHandler ==
  \/ MarkVideo
  \/ MarkData
  \/ ApplySync(TRUE)
  \/ AddTimestamp("", "", TRUE)
  \/ \E index \in 0..(MaxTimestamps - 1) : DeleteTimestamp(index, TRUE)
  \/ \E bundle \in RaceBundles : ImportZip(bundle)
  \/ ImportLoaded
  \/ ImportMeta(TRUE)
  \/ ImportVideo(TRUE)
  \/ ImportCsv(TRUE)

NextRace == RaceHandler /\ UNCHANGED steps

SpecRace == InitThrottle /\ [][NextRace]_vars


\* ------------------------------------------------------------------ claims

BothMarked == videoMarkedTime # Null /\ dataMarkedTime # Null
Applies == \E writeOk \in BOOLEAN : ApplySync(writeOk)

C2_EnabledOnlyBothMarked == ~setSyncDisabled => BothMarked

C2_Witness == ~setSyncDisabled /\ BothMarked /\ Val(dataMarkedTime) = SampleUnits

\* C3: apply clears both marks and disables the button in the transition that
\* sets the offset, and an apply in the resulting IDLE state changes nothing.
C3_ApplyClearsMarks ==
  [][/\ (BothMarked /\ Applies) =>
          /\ videoMarkedTime' = Null
          /\ dataMarkedTime' = Null
          /\ setSyncDisabled'
          /\ syncOffset' = Val(videoMarkedTime) - Val(dataMarkedTime)
     /\ (videoMarkedTime = Null /\ dataMarkedTime = Null /\ Applies) =>
          UNCHANGED <<syncOffset, videoMarkedTime, dataMarkedTime, setSyncDisabled,
                      localStorage>>]_vars

C3_Witness ==
  /\ syncOffset = SampleUnits
  /\ videoMarkedTime = Null
  /\ dataMarkedTime = Null
  /\ setSyncDisabled

\* C4 as claimed: apply with a mark absent fails with PreconditionError and
\* leaves the offset, the marks and the stored project unchanged.
C4_ApplyRaisesPrecondition ==
  [][(~BothMarked /\ Applies) =>
       /\ lastError' = Some("PreconditionError")
       /\ UNCHANGED <<syncOffset, videoMarkedTime, dataMarkedTime, localStorage>>]_vars

\* C4: apply with a mark absent returns without signalling any failure and
\* leaves the offset, the marks, the button and the stored project unchanged.
C4_ApplyWithoutMarkIsNoOp ==
  [][(~BothMarked /\ Applies) =>
       /\ lastError' = Null
       /\ UNCHANGED <<syncOffset, videoMarkedTime, dataMarkedTime, setSyncDisabled,
                      localStorage>>]_vars

\* one mark present, the other absent, an offset and a stored project to lose
C4_Witness ==
  /\ videoMarkedTime # Null
  /\ dataMarkedTime = Null
  /\ syncOffset # 0
  /\ \E k \in StorageKeys : localStorage[k] # Null

Imports ==
  \/ \E writeOk \in BOOLEAN : ImportMeta(writeOk)
  \/ \E meta \in { Some(m) : m \in Metas }, writeOk \in BOOLEAN : ImportJson(meta, writeOk)

\* C5 as claimed: only apply ever changes the offset.
C5_OnlyApplyChangesOffset == [][syncOffset' # syncOffset => Applies]_vars

\* C5: the offset changes only in apply, in reset (clearAll sets it to 0), in
\* the load of a stored project and in an import; marks, slider moves,
\* annotations, start, stop, ticks and mode switches leave it unchanged.
C5_OffsetFrame ==
  [][syncOffset' # syncOffset => (Applies \/ ClearAll \/ LoadedMetadata \/ Imports)]_vars

\* an offset is set, a video mark is placed on top of it and tracking runs
C5_Witness ==
  /\ syncOffset # 0
  /\ videoMarkedTime # Null
  /\ isRunning

Window == Val(chartAxis)
Shown == marker # Null

C8_MarkerInRange ==
  Shown =>
    /\ Val(marker).kind = "fin"
    /\ 0 <= Val(marker).num
    /\ Val(marker).num <= 100 * Val(marker).den
    /\ Window.max = Window.min => Val(marker) = Fin(0, 1)

\* adjustedTime = -2.5 s: the window is [0, 0] and the marker is at 0
C8_Witness ==
  /\ Shown
  /\ videoTime - syncOffset = -HalfWindowUnits
  /\ Window.max = Window.min
  /\ Val(marker) = Fin(0, 1)

\* a ready tick: renderFrame() got past the readyState test and counted a frame
ReadyTick == frameIndex' = frameIndex + 1
Infers == inflight' = inflight + 1

\* C9 as stated: on every ready tick, in whichever mode, the detector is
\* called if and only if frameIndex mod skipInterval = 0 or there is no prior
\* result.
C9_SkipInEveryMode ==
  [][ReadyTick =>
       (Infers <=> (frameIndex' % UPLOAD_FRAME_SKIP = 0 \/ lastPose = Null))]_vars

\* C9 as the code has it: in upload mode the detector is called on a ready
\* tick if and only if frameIndex mod skipInterval = 0 or there is no prior
\* result, and a tick that skips it draws the previous result and keeps it;
\* in live mode the detector is called on every ready tick.
C9_SkipInUploadOnly ==
  [][ReadyTick =>
       /\ Infers <=> \/ currentMode = "live"
                     \/ frameIndex' % UPLOAD_FRAME_SKIP = 0
                     \/ lastPose = Null
       /\ ~Infers => /\ currentMode = "upload"
                     /\ inflight' = inflight
                     /\ lastPose' = lastPose
                     /\ drawnPose' = lastPose]_vars

\* upload mode after tick 3 of a single loop: no detector call is in flight
\* and the pose on screen is the stored one
C9_Witness ==
  /\ currentMode = "upload"
  /\ isRunning
  /\ frameIndex = 3
  /\ inflight = 0
  /\ Cardinality(rafPending) = 1
  /\ lastPose # Null
  /\ drawnPose = lastPose

\* C10 as stated: at most one chain of scheduled ticks is alive at any time,
\* and a start while tracking is running changes nothing of the loop.
C10_SingleLoop ==
  /\ [](Chains <= 1)
  /\ [][(isRunning /\ \E paused \in BOOLEAN : HandleStart(paused)) =>
          UNCHANGED <<frameIndex, lastPose, animationId, rafPending, inflight>>]_vars

\* C11 as stated: at most one detector call is in flight at any time.
C11_OneInferenceInFlight == inflight <= 1

\* a renderFrame() call resumes after its detector call while tracking is
\* stopped
ResumesStopped ==
  ~isRunning /\ \E result \in {Null} \cup { Some(p) : p \in Poses } : InferenceDone(result)

\* C12 as stated: the result of a detector call that completes after stop is
\* discarded: it is not drawn, it updates no chart and no further frame is
\* requested.
C12_ResultDiscardedAfterStop ==
  [][ResumesStopped =>
       UNCHANGED <<drawnPose, chartVars, lastImuUpdateTime, rafPending, animationId>>]_vars

\* a renderFrame() call reaches its throttled chart update: it resumed with a
\* pose, or it reused the stored pose
TickDraws ==
  \/ \E p \in Poses : InferenceDone(Some(p))
  \/ /\ isRunning
     /\ ~ShouldUpdatePose(currentMode, frameIndex + 1, lastPose)
     /\ \E id \in rafPending : RenderFrame(id, TRUE)
Elapsed == now - lastImuUpdateTime
LoopUpdates ==
  /\ lastImuUpdateTime' = now
  /\ chartAxis' = Some([min |-> StartTime(videoTime - syncOffset),
                        max |-> EndTime(videoTime - syncOffset)])
  /\ marker' # Null

\* C13: the loop updates the charts at most once per 33 ms of clock time: an
\* update is at least 33 ms after the previous one, a tick less than 33 ms
\* after the last update changes nothing, and the recorded update time never
\* decreases.
C13_Throttled ==
  [][/\ (lastImuUpdateTime' # lastImuUpdateTime \/ chartVars' # chartVars) =>
          (TickDraws /\ LoopUpdates /\ Elapsed >= 33)
     /\ lastImuUpdateTime' >= lastImuUpdateTime
     /\ (TickDraws /\ Elapsed < 33) => UNCHANGED <<chartVars, lastImuUpdateTime>>]_vars

\* a second update, 40 ms after the one at 40 ms
C13_Witness ==
  /\ lastImuUpdateTime = 2 * 40
  /\ now = lastImuUpdateTime
  /\ marker # Null

KeyKnown == currentVideoFileInfo # Null
StoredHere == localStorage[Val(ProjectStorageKey(currentVideoFileInfo))]

\* C15: a save never signals a failure to the handler that called it and
\* never changes the live state: without a media identity nothing is written,
\* and when the write fails the handler's own effect on the offset, the
\* annotations and the notes stands and storage is as it was.
C15_SaveFailsSilently ==
  [][/\ ~KeyKnown' => localStorage' = localStorage
     /\ ApplySync(FALSE) =>
          /\ localStorage' = localStorage
          /\ lastError' = Null
          /\ BothMarked => syncOffset' = Val(videoMarkedTime) - Val(dataMarkedTime)
          /\ UNCHANGED <<timestamps, notesInput>>
     /\ \A rawLabel \in Labels :
          AddTimestamp(rawLabel, "", FALSE) =>
            /\ localStorage' = localStorage
            /\ lastError' = Null
            /\ Len(timestamps') = Len(timestamps) + 1
            /\ SubSeq(timestamps', 1, Len(timestamps)) = timestamps
            /\ syncOffset' = syncOffset
     /\ \A index \in 0..(MaxTimestamps - 1) :
          (DeleteTimestamp(index, FALSE) /\ index < Len(timestamps)) =>
            /\ localStorage' = localStorage
            /\ lastError' = Null
            /\ Len(timestamps') = Len(timestamps) - 1
            /\ UNCHANGED <<syncOffset, notesInput>>
     /\ \A m \in Metas :
          ImportJson(Some(m), FALSE) =>
            /\ localStorage' = localStorage
            /\ lastError' = Null
            /\ syncOffset' = MetaOffset(m)
            /\ timestamps' = MetaTimestamps(m)
            /\ notesInput' = MetaNotes(m)]_vars

\* an import whose write failed: the live offset is the imported one, the
\* project stored under the video's key still has the offset saved before
C15_Witness ==
  /\ KeyKnown
  /\ StoredHere # Null
  /\ Val(StoredHere).syncOffset = Some(0)
  /\ syncOffset = 2 * SampleUnits
  /\ lastError = Null

\* video.onloadedmetadata of a file the user chose: the identity is set and
\* loadProjectFromLocal() runs
LoadsFile == LoadedMetadata /\ Val(pendingLoad).kind = "file"

\* C16: when a project is stored under the loaded video's key, the load
\* replaces the live offset, annotations and notes with the stored values.
C16_LoadReplacesLive ==
  [][(LoadsFile /\ StoredHere' # Null) =>
       /\ Some(syncOffset') = Val(StoredHere').syncOffset
       /\ Some(timestamps') = Val(StoredHere').timestamps
       /\ Some(notesInput') = Val(StoredHere').notes]_vars

\* a video is loaded, and the live project is the stored one: the imported
\* offset, one annotation, notes
C16_Witness ==
  /\ KeyKnown
  /\ uploadedVideoReady
  /\ timeUpdateListener
  /\ StoredHere # Null
  /\ Val(StoredHere).syncOffset = Some(2 * SampleUnits)
  /\ syncOffset = 2 * SampleUnits
  /\ Val(StoredHere).timestamps = Some(timestamps)
  /\ Len(timestamps) = 1
  /\ Val(StoredHere).notes = Some(notesInput)
  /\ notesInput = "n"

\* C17 as stated: when no project is stored under the loaded video's key,
\* the live project is fresh: offset 0, no annotations, empty notes.
C17_FreshProjectOnLoad ==
  [][(LoadsFile /\ StoredHere' = Null) =>
       /\ syncOffset' = 0
       /\ timestamps' = << >>
       /\ notesInput' = ""]_vars

\* a handler that changes the project: apply with both marks, add, delete
\* of an existing annotation, notes edit
Mutates ==
  \/ BothMarked /\ ApplySync(TRUE)
  \/ \E rawLabel \in Labels : AddTimestamp(rawLabel, "", TRUE)
  \/ \E index \in 0..(MaxTimestamps - 1) :
       index < Len(timestamps) /\ DeleteTimestamp(index, TRUE)
  \/ \E text \in NotesTexts : text # notesInput /\ EditNotes(text)

\* C18 as stated: with a known identity and a working storage, after each
\* mutating action the project stored under the key has the live offset,
\* annotations and notes.
C18_StoredFollowsLive ==
  [][(KeyKnown /\ Mutates) =>
       /\ StoredHere' # Null
       /\ Val(StoredHere').syncOffset = Some(syncOffset')
       /\ Val(StoredHere').timestamps = Some(timestamps')
       /\ Val(StoredHere').notes = Some(notesInput')]_vars

\* the live aggregate, and what a load under the current key restores from a
\* given storage into a cleared page
LiveProject == <<syncOffset, timestamps, notesInput>>
RestoredFrom(store) ==
  LET p == LoadedFrom(store, currentVideoFileInfo, 0, << >>, "")
  IN <<p[1], p[2], p[3]>>
SavedNow(store, project) ==
  SavedStorage(store, currentVideoFileInfo, project[1], project[2], project[3],
               NoExtra, TRUE)

\* C19: a load after a save under the same key restores exactly the saved
\* offset, annotations and notes, and saving and loading again gives the same.
C19_SaveLoadRoundTrip ==
  KeyKnown =>
    /\ RestoredFrom(SavedNow(localStorage, LiveProject)) = LiveProject
    /\ RestoredFrom(SavedNow(SavedNow(localStorage, LiveProject),
                             RestoredFrom(SavedNow(localStorage, LiveProject))))
         = LiveProject

\* a project with an offset, an annotation and notes that has been saved under
\* the loaded video's key
C19_Witness ==
  /\ KeyKnown
  /\ syncOffset # 0
  /\ Len(timestamps) = 1
  /\ notesInput = "n"
  /\ StoredHere # Null
  /\ RestoredFrom(localStorage) = LiveProject


\* C20 -- Export followed by import restores the project: the exported
\* project.json holds the live sync offset, the annotations in their order,
\* the notes and the sample rate; importing that bundle sets the live offset,
\* annotations and notes to the exported ones, the later import steps leave
\* them alone, and the project the import saves holds the exported values and
\* the exported sample rate.
BundleProject(bundle) ==
  LET meta == Val(bundle.meta)
  IN <<Val(meta.syncOffset), Val(meta.timestamps), Val(meta.notes)>>
BundleRate(bundle) == Val(bundle.meta).sampleRate
ImportStage == ImportMeta(TRUE) \/ ImportVideo(TRUE) \/ ImportCsv(TRUE)
StoredProject(stored) ==
  <<Val(Val(stored).syncOffset), Val(Val(stored).timestamps), Val(Val(stored).notes)>>
Deletes(index) == \E writeOk \in BOOLEAN : DeleteTimestamp(index, writeOk)
BadIndex(index) == index = -1 \/ index = Len(timestamps)

\* C21 as claimed: deleting index -1 or index length fails with IndexError and
\* leaves the annotations and the stored project unchanged.
C21_DeleteRaisesIndexError ==
  [][\A index \in -1..MaxTimestamps :
       (BadIndex(index) /\ Deletes(index)) =>
         /\ lastError' = Some("IndexError")
         /\ UNCHANGED <<timestamps, localStorage>>]_vars

\* C21: deleting index -1 or index length returns without signalling any
\* failure and leaves the annotations and the stored project unchanged.
C21_DeleteBadIndexIsNoOp ==
  [][\A index \in -1..MaxTimestamps :
       (BadIndex(index) /\ Deletes(index)) =>
         /\ lastError' = Null
         /\ UNCHANGED <<timestamps, localStorage>>]_vars

\* annotations to lose and a stored project holding them, under a known key
C21_Witness ==
  /\ Len(timestamps) >= 1
  /\ KeyKnown
  /\ StoredHere # Null
  /\ Val(Val(StoredHere).timestamps) = timestamps


\* ----------------------------------------------------------------- C22

NoMetaImport == importState # Null /\ Val(importState).bundle.meta = Null
ImportTargets ==
  <<syncOffset, timestamps, notesInput, csvData, csvTimesSeconds,
    currentVideoFileInfo, videoSrc, localStorage>>

\* C22 -- The import of a bundle without a metadata entry fails and is
\* aborted as a whole: picking the bundle changes nothing, the import never
\* gets past the look-up of the metadata entry, and that look-up signals the
\* failure and ends the import with the offset, the annotations, the notes,
\* the samples, the video identity and source and the storage unchanged, also
\* when the bundle has a video or a data entry.
C22_NoMetadataAborts ==
  [][/\ (\E bundle \in Bundles : bundle.meta = Null /\ ImportZip(bundle)) =>
          UNCHANGED ImportTargets
     /\ NoMetaImport => Val(importState).pc = "load"
     /\ (NoMetaImport /\ ImportLoaded) =>
          /\ lastError' # Null
          /\ importState' = Null
          /\ UNCHANGED ImportTargets]_vars

\* the import of a bundle without metadata has just failed on a page that has
\* an offset, an annotation and samples
C22_Witness ==
  /\ lastError = Some("project.json not found in ZIP.")
  /\ importState = Null
  /\ syncOffset # 0
  /\ Len(timestamps) >= 1
  /\ csvData # Null


\* ----------------------------------------------------------------- C23

ImportBundle == Val(importState).bundle
\* the offset, annotations and notes a metadata entry holds (0, none and empty
\* for a field it does not have)
MetaProject(meta) ==
  <<IF meta.syncOffset = Null THEN 0 ELSE Val(meta.syncOffset),
    IF meta.timestamps = Null THEN << >> ELSE Val(meta.timestamps),
    IF meta.notes = Null THEN "" ELSE Val(meta.notes)>>
Partial(bundle) == bundle.meta # Null /\ (bundle.video = Null \/ bundle.csv = Null)
MediaVars == <<currentVideoFileInfo, videoSrc, pendingLoad, uploadedVideoReady>>
ImportActs == importState # Null /\ (ImportLoaded \/ ImportStage)

Twins(f, g) == f.name = g.name /\ f.size = g.size /\ f.content # g.content
SlotOf(file) == localStorage[Val(ProjectStorageKey(FileInfoOf(file)))]
Current(file) == videoSrc = Some(file.content) /\ currentVideoFileInfo = FileInfoOf(file)

\* C24 -- The identity key depends on the name and the byte size only: for
\* two different videos with the same name and size, loading one of them makes
\* the project stored for the other one the live project, and every write to
\* storage while one of them is the current video replaces the project stored
\* for the other one by the live project.
C24_SameNameAndSizeCollide ==
  [][\A f, g \in VideoFiles :
       Twins(f, g) =>
         /\ (LoadsFile /\ Val(pendingLoad).file = f /\ SlotOf(g) # Null) =>
              LiveProject' = StoredProject(SlotOf(g))
         /\ (Current(f) /\ UNCHANGED currentVideoFileInfo
               /\ localStorage' # localStorage) =>
              /\ SlotOf(g)' # SlotOf(g)
              /\ StoredProject(SlotOf(g)') = LiveProject']_vars

\* the second of two videos with the same name and size is loaded, and the
\* live project with its annotation is the one stored under the shared key
C24_Witness ==
  /\ \E f, g \in VideoFiles : Twins(f, g) /\ Current(f) /\ f.content = "c2"
  /\ pendingLoad = Null
  /\ uploadedVideoReady
  /\ StoredHere # Null
  /\ Len(timestamps) >= 1
  /\ StoredProject(StoredHere) = LiveProject


\* ----------------------------------------------------------------- C25

SampleCount == IF csvData = Null THEN 0 ELSE Len(Val(csvData))
TimeSeriesConsistent ==
  /\ Len(csvTimesSeconds) = SampleCount
  /\ \A i \in 1..Len(csvTimesSeconds) :
       csvTimesSeconds[i] * SAMPLE_RATE_HZ = (i - 1) * UnitsPerSecond
DataLines(text) == Len(NonBlankLines(text)) - 1

\* C25 -- In every reachable state the time sequence is as long as the sample
\* sequence and the time of sample i (counted from 0) is i / SAMPLE_RATE_HZ;
\* a parse of a text that has a header replaces the samples by exactly the
\* rows of that text, and with them the times; clearAll leaves no samples and
\* no times.
C25_TimeSeriesConsistent ==
  /\ []TimeSeriesConsistent
  /\ [][/\ \A text \in CsvFiles :
            (LoadCsv(text) /\ DataLines(text) >= 0) =>
              csvData' # Null /\ Len(Val(csvData')) = DataLines(text)
        /\ (ImportCsv(TRUE) /\ DataLines(Val(ImportBundle.csv)) >= 0) =>
              csvData' # Null /\ Len(Val(csvData')) = DataLines(Val(ImportBundle.csv))
        /\ ClearAll => (csvData' = Null /\ csvTimesSeconds' = << >>)]_vars

\* two samples are loaded, at 0 s and 1 / SAMPLE_RATE_HZ s
C25_Witness ==
  /\ csvData # Null
  /\ Len(Val(csvData)) = 2
  /\ csvTimesSeconds = <<0, SampleUnits>>


\* ----------------------------------------------------------------- C26

\* the loop is running and its only chain is suspended in the detector
Hung == isRunning /\ inflight > 0 /\ rafPending = {}
\* the charts show the window and the marker of the current video time
ViewFollows ==
  /\ chartAxis # Null
  /\ marker # Null
  /\ LET view == WindowedView(videoTime, syncOffset)
     IN /\ Window = [min |-> view.min, max |-> view.max]
        /\ Val(marker) = view.markerPos

\* C26 as claimed: while a detector call hangs with the loop running, the
\* windowed view keeps following the advancing video time: a view that is
\* behind the video is updated unless the call returns or the loop is stopped.
C26_HungInferenceKeepsView ==
  (Hung /\ ~ViewFollows) ~> (~Hung \/ ViewFollows)


\* ----------------------------------------------------------------- C27

\* a tick is in progress or scheduled
LoopAlive == Chains > 0
WriteFails == AddTimestamp("", "", FALSE)
LoadFails == LoadsFile /\ StoredHere' = Some(Unparseable)
Kept(before, after) ==
  \A i \in 1..Len(before) : \E j \in 1..Len(after) : after[j] = before[i]

\* C27 as claimed: no failure hard-stops the loop or loses annotations: the
\* loop is never running with no tick in progress or scheduled, and a step in
\* which the detector rejects, a storage write fails or the stored project
\* does not parse keeps every live annotation.
C27_FailuresNeverStopOrLose ==
  /\ [](isRunning => LoopAlive)
  /\ [][(InferenceRejected \/ WriteFails \/ LoadFails) =>
          Kept(timestamps, timestamps')]_vars


\* ----------------------------------------------------------------- C28

RunningTick(ready) == isRunning /\ \E id \in rafPending : RenderFrame(id, ready)

\* C28 -- frameIndex counts the ready ticks of the running loop: a tick that
\* finds the video ready adds exactly 1 to frameIndex, on a tick that calls
\* the detector and on a tick that reuses the last pose alike; a tick that
\* finds the video not ready leaves frameIndex, the last pose, the drawn pose,
\* the charts, the throttle time and the calls in flight unchanged and
\* requests the next frame in place of the one that ran.
C28_FrameIndexCountsReadyTicks ==
  [][/\ RunningTick(TRUE) =>
          /\ frameIndex' = frameIndex + 1
          /\ Infers \/ UNCHANGED inflight
     /\ (RunningTick(FALSE) /\ ~RunningTick(TRUE)) =>
          /\ UNCHANGED <<frameIndex, lastPose, drawnPose, chartVars, lastImuUpdateTime,
                         inflight, isRunning>>
          /\ animationId' # Null
          /\ Val(animationId') \in rafPending'
          /\ Cardinality(rafPending') = Cardinality(rafPending)]_vars

\* the second ready tick of a run in upload mode is in the detector after the
\* first one found a pose: both ticks were counted
C28_Witness ==
  /\ currentMode = "upload"
  /\ isRunning
  /\ frameIndex = 2
  /\ inflight = 1
  /\ rafPending = {}
  /\ lastPose # Null


\* ----------------------------------------------------------------- C29

\* C29 -- Cancellation is checked at the top of every tick: no step taken
\* while the controller is stopped counts a frame or calls the detector (a
\* frame callback that runs then only returns), and when the controller stays
\* stopped from some point on, eventually no frame is requested any more.
C29_StopCancelsTicks ==
  /\ [][~isRunning => (~ReadyTick /\ ~Infers)]_vars
  /\ (<>[](~isRunning)) => <>[](rafPending = {})

\* the loop was stopped while a tick was in the detector, and the call has
\* returned and requested a frame: a tick is scheduled in a stopped controller
C29_Witness ==
  /\ ~isRunning
  /\ frameIndex > 0
  /\ inflight = 0
  /\ rafPending # {}
  /\ animationId # Null
  /\ drawnPose # Null


\* ----------------------------------------------------------------- C30

Switches == \E mode \in {"live", "upload"} : mode # currentMode /\ SelectMode(mode)
FrameStateInitial == frameIndex = 0 /\ lastPose = Null

\* C30 as claimed: a mode switch leaves the controller stopped with
\* frameIndex = 0 and no last pose, and a stopped controller keeps these
\* initial values until a start (every stopped controller of this
\* specification has never run or was stopped by a switch).
C30_SwitchResetsFrameState ==
  [][/\ Switches => (~isRunning' /\ FrameStateInitial')
     /\ (~isRunning /\ FrameStateInitial) => FrameStateInitial']_vars


\* ----------------------------------------------------------------- C31

\* handleStart reaches its tail: the controller goes from stopped to running
Starts == ~isRunning /\ isRunning'
\* the first ready tick after a start: no frame has been counted since
FirstReadyTick == isRunning /\ frameIndex = 0 /\ ReadyTick

\* C31 as claimed: every successful start leaves frameIndex = 0 and no last
\* pose, the first ready tick after a start calls the detector, and every
\* ready tick calls it while there is no last pose.
C31_FirstTickInfers ==
  [][/\ Starts => (frameIndex' = 0 /\ lastPose' = Null)
     /\ FirstReadyTick => Infers
     /\ (isRunning /\ lastPose = Null /\ ReadyTick) => Infers]_vars


\* ----------------------------------------------------------------- C32

Adds ==
  \E rawLabel \in Labels, eventType \in EventTypes, writeOk \in BOOLEAN :
    AddTimestamp(rawLabel, eventType, writeOk)
InRange(index) == 0 <= index /\ index < Len(timestamps)

\* C32: adding an annotation appends one entry and leaves the existing
\* entries in place, and deleting at an index inside the list removes exactly
\* that entry and leaves the others in their order.
C32_InsertionOrderKept ==
  [][/\ Adds =>
          /\ Len(timestamps') = Len(timestamps) + 1
          /\ \A i \in 1..Len(timestamps) : timestamps'[i] = timestamps[i]
          /\ timestamps'[Len(timestamps')].time = videoTime
     /\ \A index \in 0..(MaxTimestamps - 1) :
          (InRange(index) /\ Deletes(index)) =>
            /\ Len(timestamps') = Len(timestamps) - 1
            /\ \A i \in 1..index : timestamps'[i] = timestamps[i]
            /\ \A i \in (index + 1)..Len(timestamps') :
                 timestamps'[i] = timestamps[i + 1]]_vars

\* three different annotations, the first two added in the other order than
\* their labels sort
C32_Witness ==
  /\ Len(timestamps) = 3
  /\ timestamps[1].label.text = "L"
  /\ timestamps[2].label.text = ""
  /\ timestamps[3].label.text = "L"
  /\ timestamps[3].eventType # timestamps[1].eventType


\* ----------------------------------------------------------------- C33

\* a step of the tracking loop: a frame callback, or a renderFrame() call
\* resuming from the detector
LoopActs ==
  \/ \E id \in 1..(MaxChains + 2), ready \in BOOLEAN : RenderFrame(id, ready)
  \/ \E result \in {Null} \cup { Some(p) : p \in Poses } : InferenceDone(result)

\* C33 as claimed: while tracking is running a "timeupdate" event leaves the
\* charts alone, and while it is stopped no step of the tracking loop updates
\* them.
C33_OneViewDriver ==
  [][/\ (isRunning /\ \E t \in VideoTimes : TimeUpdate(t)) => UNCHANGED chartVars
     /\ (~isRunning /\ LoopActs) => UNCHANGED <<chartVars, lastImuUpdateTime>>]_vars


\* ----------------------------------------------------------------- C34

\* the last step of an import that found project.json
ImportEnds == ImportActs /\ ImportBundle.meta # Null /\ importState' = Null
BundleKey(bundle) == Val(ProjectStorageKey(FileInfoOf(Val(bundle.video))))

\* no annotation was added or deleted since the import read project.json
AnnotationsAsImported ==
  Val(importState).stamps = Val(ImportBundle.meta).timestamps

\* C34 as claimed: when the import of a bundle with project.json and a video
\* entry ends, the entry of localStorage under the key of the bundle's video
\* (its name and size) holds the offset, annotations and notes of
\* project.json (the user having left the annotations alone meanwhile).
C34_ImportSavedUnderBundleKey ==
  [][(ImportEnds /\ ImportBundle.video # Null /\ AnnotationsAsImported) =>
       /\ localStorage'[BundleKey(ImportBundle)] # Null
       /\ StoredProject(localStorage'[BundleKey(ImportBundle)]) =
            MetaProject(Val(ImportBundle.meta))]_vars


\* ----------------------------------------------------------------- C35

\* the values the claim lists
Cleared ==
  /\ ~isRunning
  /\ frameIndex = 0
  /\ lastPose = Null
  /\ csvData = Null
  /\ csvTimesSeconds = << >>
  /\ videoMarkedTime = Null
  /\ dataMarkedTime = Null
  /\ timestamps = << >>
\* the page as clearAll leaves it: no video, charts destroyed, nothing drawn
JustCleared ==
  /\ Cleared
  /\ videoSrc = Null
  /\ pendingLoad = Null
  /\ chartAxis = Null
  /\ marker = Null
  /\ drawnPose = Null
  /\ syncOffset = 0
  /\ notesInput = ""
\* a callback of the page that is not a user action
Callback == PlayDone \/ LoadedMetadata \/ LoopActs

\* C35 as claimed: clearAll leaves the controller stopped, frameIndex = 0, no
\* last pose, no samples, no marks and no annotations, and does not write to
\* localStorage; and on the page as clearAll left it, no callback changes
\* any of these values.
C35_ClearResetsLiveState ==
  [][/\ ClearAll => (Cleared' /\ JustCleared' /\ UNCHANGED localStorage)
     /\ (JustCleared /\ Callback) => Cleared']_vars


\* ----------------------------------------------------------------- C36

\* clearAll has called stopTracking() and no handleStart call can have passed
\* its "uploadedVideoReady" test since: the page has no video and its charts
\* are destroyed
StoppedByClear == videoSrc = Null /\ chartAxis = Null /\ ~uploadedVideoReady

\* C36 as claimed: a stopTracking() call (here the one clearAll makes) leaves
\* the controller stopped, and the controller stays stopped as long as no
\* start can have been invoked after it, also when a handleStart call was
\* waiting for video.play() at the time of the stop.
C36_StopNeverLost ==
  [][/\ ClearAll => ~isRunning'
     /\ (StoppedByClear /\ ~isRunning) => ~isRunning']_vars


\* ----------------------------------------------------------------- C37

\* C37 as claimed: when an import that found project.json ends and a video
\* identity is known, the project stored under its key has the live offset
\* and the live annotations, whatever the user did while the import was
\* suspended.
C37_ImportSaveNotStale ==
  [][(ImportEnds /\ KeyKnown') =>
       /\ StoredHere' # Null
       /\ Val(StoredHere').syncOffset = Some(syncOffset')
       /\ Val(StoredHere').timestamps = Some(timestamps')]_vars


\* ----------------------------------------------------------------- C38

\* clearAll has run and no video was loaded since: no video source, and the
\* charts are destroyed
PageCleared == videoSrc = Null /\ chartAxis = Null
\* a step of an import: a metadata-only project file, or a bundle
ImportWrites ==
  \/ \E meta \in {Null} \cup { Some(m) : m \in Metas }, writeOk \in BOOLEAN :
       ImportJson(meta, writeOk)
  \/ ImportActs

\* C38 as claimed, for the imports: on a cleared page no import step writes
\* to localStorage, so the entry of the video that was loaded before the
\* Clear stays as it was.
C38_NoWriteAfterClear ==
  [][(PageCleared /\ ImportWrites) => UNCHANGED localStorage]_vars


\* ----------------------------------------------------------------- C39

SampleTimes == { csvTimesSeconds[i] : i \in 1..Len(csvTimesSeconds) }
\* a sample source is loaded (CSV upload, or the data entry of a bundle), or a
\* project is imported
LoadsSamples == (\E text \in CsvFiles : LoadCsv(text)) \/ ImportWrites

\* C40 as claimed: a data mark is always the time of a sample of the loaded
\* series.
C40_DataMarkIsSampleTime ==
  dataMarkedTime # Null => Val(dataMarkedTime) \in SampleTimes

\* C40: whenever the data mark is set or changed, it becomes the time of a
\* sample of the series loaded at that moment (the sample the slider picks,
\* or 0 by default), and apply and reset clear it; loading a sample source
\* and importing leave the mark as it is, so a mark set before a load is kept
\* whether or not the new series has a sample at that time.
C40_DataMarkSetFromSamples ==
  [][/\ dataMarkedTime' # dataMarkedTime =>
          /\ dataMarkedTime' # Null =>
               (UNCHANGED csvVars /\ Val(dataMarkedTime') \in SampleTimes)
          /\ dataMarkedTime' = Null => (Applies \/ ClearAll)
     /\ LoadsSamples => UNCHANGED dataMarkedTime]_vars

\* the mark was set at the second sample of a series, and a series with one
\* sample was loaded afterwards
C40_Witness ==
  /\ dataMarkedTime = Some(SampleUnits)
  /\ csvData # Null
  /\ SampleTimes = {0}

====
